---- MODULE Spec2Model ----
(***************************************************************************)
(* Model of the Settings Application Engine of win-regional-reset          *)
(* (src/python/regional_settings_reset.py): the locale catalog, the        *)
(* registry write with retry and read-back verification, the registry      *)
(* backup, the statistics counters, and the two callers of the engine      *)
(* (command-line main and the interactive quick reset).                    *)
(***************************************************************************)
EXTENDS Integers, Sequences, FiniteSets, TLC

\* ------------------------------------------------------------------ bounds
\* Configured maxRetries ranges over 0..MaxRetriesBound.
MaxRetriesBound == 3
\* Top-level calls (engine API calls, quick resets) explored per behaviour.
MaxCalls == 2
\* Failing store responses the environment may inject per behaviour.
MaxFaults == 3

\* ------------------------------------------------------------- Python values
\* A Python value of a settings table: a str or an int.
PyStr(s) == [tag |-> "str", s |-> s, n |-> 0]
PyInt(n) == [tag |-> "int", s |-> "", n |-> n]

\* winreg.REG_SZ / winreg.REG_DWORD
REG_SZ == 1
REG_DWORD == 4

\* ------------------------------------------------------------ Locale catalog
SupportedOrder ==
    << "pl-PL", "en-US", "en-GB", "de-DE", "fr-FR", "es-ES",
       "it-IT", "pt-PT", "ru-RU", "zh-CN", "ja-JP", "ko-KR" >>

SUPPORTED_LOCALES ==
       "pl-PL" :> "Polish (Poland)"
    @@ "en-US" :> "English (United States)"
    @@ "en-GB" :> "English (United Kingdom)"
    @@ "de-DE" :> "German (Germany)"
    @@ "fr-FR" :> "French (France)"
    @@ "es-ES" :> "Spanish (Spain)"
    @@ "it-IT" :> "Italian (Italy)"
    @@ "pt-PT" :> "Portuguese (Portugal)"
    @@ "ru-RU" :> "Russian (Russia)"
    @@ "zh-CN" :> "Chinese (Simplified, China)"
    @@ "ja-JP" :> "Japanese (Japan)"
    @@ "ko-KR" :> "Korean (Korea)"

\* The characters of the strings that the catalog takes apart or builds
\* (TLC's strings are atomic, so their spelling is given here).
Spelling ==
       "pl-PL" :> <<"p", "l", "-", "P", "L">>
    @@ "en-US" :> <<"e", "n", "-", "U", "S">>
    @@ "en-GB" :> <<"e", "n", "-", "G", "B">>
    @@ "de-DE" :> <<"d", "e", "-", "D", "E">>
    @@ "fr-FR" :> <<"f", "r", "-", "F", "R">>
    @@ "es-ES" :> <<"e", "s", "-", "E", "S">>
    @@ "it-IT" :> <<"i", "t", "-", "I", "T">>
    @@ "pt-PT" :> <<"p", "t", "-", "P", "T">>
    @@ "ru-RU" :> <<"r", "u", "-", "R", "U">>
    @@ "zh-CN" :> <<"z", "h", "-", "C", "N">>
    @@ "ja-JP" :> <<"j", "a", "-", "J", "P">>
    @@ "ko-KR" :> <<"k", "o", "-", "K", "R">>
    @@ "DE" :> <<"D", "E">>
    @@ "EN" :> <<"E", "N">>
    @@ "ES" :> <<"E", "S">>
    @@ "FR" :> <<"F", "R">>
    @@ "IT" :> <<"I", "T">>
    @@ "JA" :> <<"J", "A">>
    @@ "KO" :> <<"K", "O">>
    @@ "PL" :> <<"P", "L">>
    @@ "PT" :> <<"P", "T">>
    @@ "RU" :> <<"R", "U">>
    @@ "ZH" :> <<"Z", "H">>

\* The string spelled by a sequence of characters.
Text(cs) == CHOOSE w \in DOMAIN Spelling : Spelling[w] = cs

UpperChar ==
       "a" :> "A" @@ "d" :> "D" @@ "e" :> "E" @@ "f" :> "F" @@ "h" :> "H"
    @@ "i" :> "I" @@ "j" :> "J" @@ "k" :> "K" @@ "l" :> "L" @@ "n" :> "N"
    @@ "o" :> "O" @@ "p" :> "P" @@ "r" :> "R" @@ "s" :> "S" @@ "t" :> "T"
    @@ "u" :> "U" @@ "z" :> "Z"

\* str.upper()
Upper(cs) ==
    [k \in 1..Len(cs) |-> IF cs[k] \in DOMAIN UpperChar THEN UpperChar[cs[k]] ELSE cs[k]]

\* str.split(sep)[0]: the characters before the first separator.
SplitFirst(cs, sep) ==
    IF \E k \in 1..Len(cs) : cs[k] = sep
    THEN SubSeq(cs, 1, (CHOOSE k \in 1..Len(cs) :
                           cs[k] = sep /\ \A j \in 1..(k - 1) : cs[j] # sep) - 1)
    ELSE cs

Setting(name, value) == [name |-> name, value |-> value]

\* The explicit tables of _get_locale_settings, in the order of the dict literal.
locale_configs(locale) ==
       "pl-PL" :> << Setting("Locale", PyStr(locale)),
                     Setting("LocaleName", PyStr(locale)),
                     Setting("sLanguage", PyStr("PLK")),
                     Setting("sCountry", PyStr("Poland")),
                     Setting("sShortDate", PyStr("dd.MM.yyyy")),
                     Setting("sLongDate", PyStr("d MMMM yyyy")),
                     Setting("sTimeFormat", PyStr("HH:mm:ss")),
                     Setting("sShortTime", PyStr("HH:mm")),
                     Setting("sCurrency", PyStr("zl")),          \* "z\u0142" in the source
                     Setting("sMonDecimalSep", PyStr(",")),
                     Setting("sMonThousandSep", PyStr(" ")),
                     Setting("sDecimal", PyStr(",")),
                     Setting("sThousand", PyStr(" ")),
                     Setting("sList", PyStr(";")),
                     Setting("iCountry", PyInt(48)),
                     Setting("iCurrency", PyInt(3)),
                     Setting("iCurrDigits", PyInt(2)),
                     Setting("iDate", PyInt(1)),
                     Setting("iTime", PyInt(1)),
                     Setting("iTLZero", PyInt(1)),
                     Setting("s1159", PyStr("")),
                     Setting("s2359", PyStr("")) >>
    @@ "en-US" :> << Setting("Locale", PyStr(locale)),
                     Setting("LocaleName", PyStr(locale)),
                     Setting("sLanguage", PyStr("ENU")),
                     Setting("sCountry", PyStr("United States")),
                     Setting("sShortDate", PyStr("M/d/yyyy")),
                     Setting("sLongDate", PyStr("dddd, MMMM d, yyyy")),
                     Setting("sTimeFormat", PyStr("h:mm:ss tt")),
                     Setting("sShortTime", PyStr("h:mm tt")),
                     Setting("sCurrency", PyStr("$")),
                     Setting("sMonDecimalSep", PyStr(".")),
                     Setting("sMonThousandSep", PyStr(",")),
                     Setting("sDecimal", PyStr(".")),
                     Setting("sThousand", PyStr(",")),
                     Setting("sList", PyStr(",")),
                     Setting("iCountry", PyInt(1)),
                     Setting("iCurrency", PyInt(0)),
                     Setting("iCurrDigits", PyInt(2)),
                     Setting("iDate", PyInt(0)),
                     Setting("iTime", PyInt(0)),
                     Setting("iTLZero", PyInt(0)),
                     Setting("s1159", PyStr("AM")),
                     Setting("s2359", PyStr("PM")) >>

\* As the default table, but with the bare language code as the locale name.
fallback_settings_language(locale) ==
    << Setting("Locale", PyStr(Text(Upper(SplitFirst(Spelling[locale], "-"))))),
       Setting("LocaleName", PyStr(Text(Upper(SplitFirst(Spelling[locale], "-"))))),
       Setting("sLanguage", PyStr(Text(Upper(SplitFirst(Spelling[locale], "-"))))),
       Setting("sCountry", PyStr(SUPPORTED_LOCALES[locale])) >>

\* The default passed to locale_configs.get(): Python evaluates it before the
\* lookup, so SUPPORTED_LOCALES[locale] is read for every locale.
fallback_settings(locale) ==
    << Setting("Locale", PyStr(locale)),
       Setting("LocaleName", PyStr(locale)),
       Setting("sLanguage", PyStr(Text(Upper(SplitFirst(Spelling[locale], "-"))))),
       Setting("sCountry", PyStr(SUPPORTED_LOCALES[locale])) >>

\* validate_locale
validate_locale(locale) == locale \in DOMAIN SUPPORTED_LOCALES

\* As _get_locale_settings, but with a default that is not looked up in
\* SUPPORTED_LOCALES: an unknown identifier yields (and caches) an empty table.
get_locale_settings_unchecked(locale, cache) ==
    IF locale \in DOMAIN cache
    THEN [raised |-> FALSE, settings |-> cache[locale], cache |-> cache]
    ELSE LET result == IF locale \in DOMAIN locale_configs(locale)
                       THEN locale_configs(locale)[locale]
                       ELSE IF locale \in DOMAIN SUPPORTED_LOCALES
                       THEN fallback_settings(locale)
                       ELSE << >>
         IN  [raised |-> FALSE, settings |-> result,
              cache |-> (locale :> result) @@ cache]

\* As _get_locale_settings, but indexing locale_configs instead of calling
\* get() with a default: an identifier without an explicit table raises.
get_locale_settings_tables_only(locale, cache) ==
    IF locale \in DOMAIN cache
    THEN [raised |-> FALSE, settings |-> cache[locale], cache |-> cache]
    ELSE IF locale \notin DOMAIN locale_configs(locale)
    THEN [raised |-> TRUE, settings |-> << >>, cache |-> cache]
    ELSE [raised |-> FALSE, settings |-> locale_configs(locale)[locale],
          cache |-> (locale :> locale_configs(locale)[locale]) @@ cache]

\* As _get_locale_settings, but with a memo of one slot: whatever table is
\* cached is returned, for whichever identifier it was built.
get_locale_settings_single_slot(locale, cache) ==
    IF DOMAIN cache # {}
    THEN [raised |-> FALSE, settings |-> cache[CHOOSE k \in DOMAIN cache : TRUE],
          cache |-> cache]
    ELSE IF locale \notin DOMAIN SUPPORTED_LOCALES
    THEN [raised |-> TRUE, settings |-> << >>, cache |-> cache]
    ELSE LET result == IF locale \in DOMAIN locale_configs(locale)
                       THEN locale_configs(locale)[locale]
                       ELSE fallback_settings(locale)
         IN  [raised |-> FALSE, settings |-> result,
              cache |-> (locale :> result) @@ cache]

\* _get_locale_settings(locale) against the process-wide cache: the outcome
\* (a KeyError, or the returned table) and the cache it leaves.
get_locale_settings(locale, cache) ==
    IF locale \in DOMAIN cache
    THEN [raised |-> FALSE, settings |-> cache[locale], cache |-> cache]
    ELSE IF locale \notin DOMAIN SUPPORTED_LOCALES
    THEN [raised |-> TRUE, settings |-> << >>, cache |-> cache]
    ELSE LET result == IF locale \in DOMAIN locale_configs(locale)
                       THEN locale_configs(locale)[locale]
                       ELSE fallback_settings(locale)
         IN  [raised |-> FALSE, settings |-> result,
              cache |-> (locale :> result) @@ cache]

\* DEFAULT_CONFIG (the options the engine reads).
DEFAULT_CONFIG == [maxRetries |-> 3, skipBackup |-> FALSE]

\* A configuration file as _load_config meets it: whether os.path.exists holds,
\* whether json.load returns, and the options its text spells out.
ConfigFile(exists, parses, options) ==
    [exists |-> exists, parses |-> parses, options |-> options]
NoConfigFile == ConfigFile(FALSE, FALSE, << >>)

\* dict.update, on the options the engine reads.
update(config, loaded_config) ==
    [k \in DOMAIN config |->
        IF k \in DOMAIN loaded_config THEN loaded_config[k] ELSE config[k]]

\* As _load_config, but taking over the options the text spells out before
\* the parse of the whole file has succeeded.
load_config_as_read(file) ==
    IF file.exists
    THEN [user_config |-> update(DEFAULT_CONFIG, file.options), warned |-> ~file.parses]
    ELSE [user_config |-> DEFAULT_CONFIG, warned |-> FALSE]

\* _load_config: the configuration it leaves in self.user_config and whether
\* it logged the warning of its except branch.
load_config(file) ==
    IF file.exists
    THEN IF file.parses
         THEN [user_config |-> update(DEFAULT_CONFIG, file.options), warned |-> FALSE]
         ELSE [user_config |-> DEFAULT_CONFIG, warned |-> TRUE]
    ELSE [user_config |-> DEFAULT_CONFIG, warned |-> FALSE]

\* ------------------------------------------------------------- exploration
\* Locale identifiers handed to the engine: the two explicit tables, one
\* fallback locale and one identifier outside the supported set.
LocaleInputs == {"pl-PL", "en-US", "de-DE", "xx-XX"}
\* Value names on which the store is allowed to misbehave (set_registry_value
\* treats every name alike; sCurrency is the key of the partial-failure case).
FaultableNames == {"sCurrency"}
\* Responses of the Live store to one write attempt.
StoreResponses == {"ok", "coerced", "set_raises", "read_raises"}
\* Outcomes of the export command of one backup call.
BackupResponses == {"exported", "export_failed", "makedirs_raises"}
BackupLabels == {"pre-change", "Manual_Backup"}
\* Further command-line arguments given besides --locale (and --force).
ExtraArguments == {{}, {"--demo"}}
\* Configuration files: none, one that sets maxRetries, and one whose text
\* sets maxRetries but does not parse.
ConfigFiles ==
    {NoConfigFile}
    \cup {ConfigFile(TRUE, TRUE, "maxRetries" :> r) : r \in 0..MaxRetriesBound}
    \cup {ConfigFile(TRUE, FALSE, "maxRetries" :> 0)}

\* ------------------------------------------------------------------- state
VARIABLES
    WINDOWS_AVAILABLE,      \* module global: the winreg import succeeded
    is_admin,               \* what IsUserAnAdmin() answers
    user_config,            \* self.user_config
    operation_count,        \* self.operation_count
    success_count,          \* self.success_count
    error_count,            \* self.error_count
    backup_path,            \* self.backup_path ("" when unset)
    LOCALE_SETTINGS_CACHE,  \* RegionalSettingsConfig.LOCALE_SETTINGS_CACHE
    registry,               \* HKCU\Control Panel\International: name -> stored value
    backup_files,           \* labels of the .reg files in the snapshot directory
    current_locale,         \* InteractiveMenu.current_locale
    entry,                  \* who drives the engine: "cli", "menu" or "api"
    pc,                     \* control point
    arg_locale,             \* the locale passed to apply_locale_settings
    locale_settings,        \* apply_locale_settings: the table being applied
    idx,                    \* position of the loop over locale_settings.items()
    attempt,                \* set_registry_value: the retry loop's counter
    success,                \* apply_locale_settings: the local flag
    ret,                    \* how apply_locale_settings ended
    backup_ret,             \* what the last create_backup returned
    exit_code,              \* sys.exit code of main (-1 while running)
    input,                  \* what the caller was given: --locale, --force, the answer
    report,                 \* the last generate_statistics_report
    config_file,            \* the file named by --config / config_file
    load_warned,            \* _load_config logged its warning
    stdout,                 \* markers the process has written to standard output
    \* history (observations, not program state)
    key,                    \* the key in progress: attempts made, whether every one
                            \* of them was a read-back mismatch, errors logged
    outcomes,               \* per key of this run: how set_registry_value ended
    last_write,             \* the last write attempt: written, read back, reported
    run_start,              \* the counters when apply_locale_settings was entered
    prev_run,               \* summary of the previous completed run of this engine
    backup_attempts,        \* create_backup calls made on this engine
    dirs_created,           \* snapshot directories this engine created
    store_writes,           \* write attempts made on this engine
    faults,                 \* failing store responses so far
    calls                   \* top-level calls so far

platform == << WINDOWS_AVAILABLE, is_admin, config_file, load_warned >>
engine == << user_config, operation_count, success_count, error_count, backup_path >>
control == << entry, pc, arg_locale, locale_settings, idx, attempt, success, ret >>
history == << key, outcomes, last_write, run_start, prev_run, backup_attempts,
              dirs_created, store_writes, faults, calls >>
vars == << platform, stdout, engine, LOCALE_SETTINGS_CACHE, registry,
           backup_files, current_locale, control, backup_ret, exit_code, input, report,
           history >>

RegistryNames == { locale_configs("pl-PL")["pl-PL"][k].name : k \in 1..Len(locale_configs("pl-PL")["pl-PL"]) }

NoValue == [present |-> FALSE, type |-> REG_SZ, data |-> PyStr("")]
NoWrite == [name |-> "", written |-> PyStr(""), read_back |-> PyStr(""),
            raised |-> FALSE, reported |-> FALSE, made |-> FALSE]
NoKey == [attempts |-> 0, only_mismatches |-> TRUE, errors |-> 0]
NoRun == [made |-> FALSE, locale |-> "", ret |-> "none", applied |-> 0, failed |-> 0,
          operation_count |-> 0, success_count |-> 0, error_count |-> 0]
NoInput == [locale |-> "", force |-> FALSE, answer |-> "", extra |-> {}]
NoReport == [made |-> FALSE, total |-> 0, successful |-> 0, failed |-> 0,
             success_rate |-> 0, backup_directory |-> ""]
BackupDir == "RegionalSettings_Backup_YYYYMMDD_HHMMSS"

Counters == [operation_count |-> operation_count, success_count |-> success_count,
             error_count |-> error_count]

\* RegionalSettingsReset.__init__ with the configuration it loaded.
NewEngine(cfg) ==
    /\ user_config' = cfg
    /\ operation_count' = 0
    /\ success_count' = 0
    /\ error_count' = 0
    /\ backup_path' = ""
    /\ backup_files' = {}
    /\ backup_attempts' = 0
    /\ dirs_created' = 0
    /\ store_writes' = 0
    /\ prev_run' = NoRun

Init ==
    /\ WINDOWS_AVAILABLE \in BOOLEAN
    /\ is_admin \in (IF WINDOWS_AVAILABLE THEN BOOLEAN ELSE {FALSE})
    /\ entry \in {"cli", "menu", "api"}
    /\ config_file \in (IF entry = "menu" THEN {NoConfigFile} ELSE ConfigFiles)
    /\ user_config = load_config(config_file).user_config
    /\ load_warned = load_config(config_file).warned
    /\ stdout = {}
    /\ operation_count = 0
    /\ success_count = 0
    /\ error_count = 0
    /\ backup_path = ""
    /\ LOCALE_SETTINGS_CACHE = << >>
    /\ registry = [nm \in RegistryNames |-> NoValue]
    /\ backup_files = {}
    /\ current_locale = "pl-PL"
    /\ pc = IF entry = "menu" THEN "menu" ELSE "start"
    /\ arg_locale = ""
    /\ locale_settings = << >>
    /\ idx = 1
    /\ attempt = 0
    /\ success = TRUE
    /\ ret = "none"
    /\ backup_ret = "none"
    /\ exit_code = -1
    /\ input = NoInput
    /\ report = NoReport
    /\ key = NoKey
    /\ outcomes = << >>
    /\ last_write = NoWrite
    /\ run_start = Counters
    /\ prev_run = NoRun
    /\ backup_attempts = 0
    /\ dirs_created = 0
    /\ store_writes = 0
    /\ faults = 0
    /\ calls = 0

\* ------------------------------------------------------------ engine methods
\* The ratio printed without the factor 100.
success_rate_as_fraction(successes, operations) ==
    (successes * 10) \div (IF operations > 1 THEN operations ELSE 1)

\* (success_count / max(operation_count, 1)) * 100 as "{:.1f}" prints it, in
\* tenths of a percent (a tie, which only exact binary fractions reach at
\* these counts, goes to the even digit).
success_rate(successes, operations) ==
    LET d == IF operations > 1 THEN operations ELSE 1
        q == (successes * 1000) \div d
        r == (successes * 1000) % d
    IN  IF 2 * r < d THEN q
        ELSE IF 2 * r > d THEN q + 1
        ELSE IF q % 2 = 0 THEN q ELSE q + 1

\* generate_statistics_report: a projection of the engine's fields.
generate_statistics_report ==
    [made |-> TRUE, total |-> operation_count, successful |-> success_count,
     failed |-> error_count,
     success_rate |-> success_rate(success_count, operation_count),
     backup_directory |-> IF backup_path = "" THEN "None created" ELSE backup_path]

\* if not self.backup_path: the directory is named and made only then.
AlwaysNeedsDirectory(path) == TRUE
NeedsDirectory(path) == path = ""

\* What makedirs and the export command can answer to this call: makedirs is
\* only called while backup_path is unset, and the export can only write its
\* file into a directory that exists.
BackupCanAnswer(resp) ==
    /\ resp = "makedirs_raises" => backup_path = ""
    /\ resp = "exported" => (backup_path = "" \/ dirs_created > 0)

\* create_backup past its platform check: the directory, the export command
\* and what is logged for its result.
export_backup(label, resp) ==
    /\ backup_path' = IF NeedsDirectory(backup_path) THEN BackupDir ELSE backup_path
    /\ dirs_created' = IF NeedsDirectory(backup_path) /\ resp # "makedirs_raises"
                       THEN dirs_created + 1 ELSE dirs_created
    /\ IF resp = "exported"
       THEN /\ success_count' = success_count + 1
            /\ backup_files' = backup_files \cup {label}
            /\ backup_ret' = "True"
            /\ UNCHANGED error_count
       ELSE /\ error_count' = error_count + 1
            /\ backup_ret' = "False"
            /\ UNCHANGED << success_count, backup_files >>

\* As create_backup, without the check of WINDOWS_AVAILABLE.
create_backup_unguarded(label, resp) ==
    /\ backup_attempts' = backup_attempts + 1
    /\ export_backup(label, resp)

\* create_backup(registry_path, backup_name) with the outcome of makedirs and
\* of the export command.
create_backup(label, resp) ==
    /\ backup_attempts' = backup_attempts + 1
    /\ IF ~WINDOWS_AVAILABLE
       THEN /\ backup_ret' = "False"
            /\ UNCHANGED << success_count, error_count, backup_path, backup_files,
                            dirs_created >>
       ELSE export_backup(label, resp)

\* What a coercing store retains instead of the value it was given.
Coerce(value) ==
    IF value.tag = "int" THEN PyInt(value.n + 1) ELSE PyStr("<coerced>")

\* winreg.SetValueEx as the store answers it: the entry the key holds afterwards.
SetValueEx(reg, name, value_type, value_data, resp) ==
    IF resp = "set_raises"
    THEN reg
    ELSE [reg EXCEPT ![name] =
            [present |-> TRUE, type |-> value_type,
             data |-> IF resp = "coerced" THEN Coerce(value_data) ELSE value_data]]

\* for attempt in range(max_retries): does the loop run iteration a?
RangeHasOneMore(a, max_retries) == a <= max_retries
InRange(a, max_retries) == a < max_retries

\* The read-back check: stored_value == value_data, reached without exception.
VerifiedWithoutReadBack(raised, stored_value, value_data) == ~raised
\* A check that only compares the kind of the value read back.
VerifiedByKind(raised, stored_value, value_data) ==
    ~raised /\ stored_value.tag = value_data.tag
Verified(raised, stored_value, value_data) == ~raised /\ stored_value = value_data

\* A verified attempt ends set_registry_value (return True); any other falls
\* through to the next iteration.
FallsThrough(verified) == FALSE
ReturnsTrue(verified) == verified

\* for setting_name, setting_value in locale_settings.items(): the position
\* after position i (a dict yields its items once each, in insertion order).
skip_item(i) == i + 2
next_item(i) == i + 1

\* isinstance(setting_value, int) selects REG_DWORD, otherwise REG_SZ.
value_type_of(setting_value) ==
    IF setting_value.tag = "int" THEN REG_DWORD ELSE REG_SZ

\* success = False when a key's set_registry_value returned False.
LastKeyDecides(flag, key_ok) == key_ok
FoldSuccess(flag, key_ok) == flag /\ key_ok

\* ----------------------------------------------------------------- callers
\* confirm.lower() != 'y' cancels (answers are given here in lower case).
always_confirmed(answer) == TRUE
confirmed(answer) == answer = "y"

\* parser.parse_args(): an argument that no add_argument declares ends the
\* process with the usage error of argparse.
ArgparseOptions == {"--locale", "--force", "--config", "--log", "--menu"}
parse_args(argv) == argv \subseteq ArgparseOptions

\* main(), command-line mode with --locale: argument parsing, validation,
\* confirmation, then the call of apply_locale_settings.
CliMain(locale, force, answer, extra) ==
    /\ entry = "cli" /\ pc = "start"
    /\ input' = [locale |-> locale, force |-> force, answer |-> answer, extra |-> extra]
    /\ calls' = calls + 1
    /\ IF ~parse_args({"--locale"} \cup extra)
       THEN pc' = "exit" /\ exit_code' = 2 /\ UNCHANGED arg_locale
       ELSE IF ~validate_locale(locale)
       THEN pc' = "exit" /\ exit_code' = 1 /\ UNCHANGED arg_locale
       ELSE IF ~force /\ ~confirmed(answer)
       THEN pc' = "exit" /\ exit_code' = 0 /\ UNCHANGED arg_locale
       ELSE pc' = "call_apply" /\ arg_locale' = locale /\ UNCHANGED exit_code
    /\ UNCHANGED << platform, stdout, engine, LOCALE_SETTINGS_CACHE,
                    registry, backup_files, current_locale, entry, locale_settings,
                    idx, attempt, success, ret, backup_ret, report, key, outcomes,
                    last_write, run_start, prev_run, backup_attempts, dirs_created,
                    store_writes, faults >>

\* sys.exit(0 if success else 1)
exit_zero(succeeded) == 0
exit_status(succeeded) == IF succeeded THEN 0 ELSE 1

\* main() after apply_locale_settings returned: the report and the exit code.
CliFinish ==
    /\ entry = "cli" /\ pc = "returned"
    /\ report' = generate_statistics_report
    /\ exit_code' = exit_status(ret = "True")
    /\ pc' = "exit"
    /\ UNCHANGED << platform, stdout, engine, LOCALE_SETTINGS_CACHE,
                    registry, backup_files, current_locale, entry, arg_locale,
                    locale_settings, idx, attempt, success, ret, backup_ret, input,
                    history >>

\* InteractiveMenu._check_admin
check_admin == WINDOWS_AVAILABLE /\ is_admin

\* InteractiveMenu.configure_settings: a valid number selects that locale.
ConfigureSettings(choice) ==
    /\ entry = "menu" /\ pc = "menu"
    /\ current_locale' = SupportedOrder[choice]
    /\ UNCHANGED << platform, stdout, engine, LOCALE_SETTINGS_CACHE,
                    registry, backup_files, control, backup_ret, exit_code, input,
                    report, history >>

\* InteractiveMenu.quick_reset up to the construction of the engine.
QuickReset(answer) ==
    /\ entry = "menu" /\ pc = "menu"
    /\ calls < MaxCalls
    /\ calls' = calls + 1
    /\ input' = [locale |-> current_locale, force |-> FALSE, answer |-> answer, extra |-> {}]
    /\ IF check_admin /\ confirmed(answer)
       THEN /\ NewEngine(DEFAULT_CONFIG)
            /\ pc' = "call_backup"
       ELSE UNCHANGED << engine, backup_files, backup_attempts, dirs_created,
                         store_writes, prev_run, pc >>
    /\ UNCHANGED << platform, stdout, LOCALE_SETTINGS_CACHE, registry,
                    current_locale, entry, arg_locale, locale_settings, idx, attempt,
                    success, ret, backup_ret, exit_code, report, key, outcomes,
                    last_write, run_start, faults >>

\* quick_reset: create_backup("HKEY_CURRENT_USER\Control Panel\International",
\* "International_Quick_Backup"), whose result is not looked at.
QuickBackup(resp) ==
    /\ entry = "menu" /\ pc = "call_backup"
    /\ BackupCanAnswer(resp)
    /\ create_backup("International_Quick_Backup", resp)
    /\ pc' = "call_apply"
    /\ arg_locale' = current_locale
    /\ UNCHANGED << platform, stdout, user_config, operation_count,
                    LOCALE_SETTINGS_CACHE, registry, current_locale, entry,
                    locale_settings, idx, attempt, success, ret, exit_code, input,
                    report, key, outcomes, last_write, run_start, prev_run,
                    store_writes, faults, calls >>

\* quick_reset after apply_locale_settings: the report, or the except branch
\* when it raised.
QuickFinish ==
    /\ entry = "menu" /\ pc = "returned"
    /\ report' = IF ret = "KeyError" THEN report ELSE generate_statistics_report
    /\ pc' = "menu"
    /\ UNCHANGED << platform, stdout, engine, LOCALE_SETTINGS_CACHE,
                    registry, backup_files, current_locale, entry, arg_locale,
                    locale_settings, idx, attempt, success, ret, backup_ret,
                    exit_code, input, history >>

\* A program that holds one engine and calls create_backup on it.
ApiCreateBackup(label, resp) ==
    /\ entry = "api" /\ pc = "start"
    /\ calls < MaxCalls
    /\ calls' = calls + 1
    /\ BackupCanAnswer(resp)
    /\ create_backup(label, resp)
    /\ UNCHANGED << platform, stdout, user_config, operation_count,
                    LOCALE_SETTINGS_CACHE, registry, current_locale, control,
                    exit_code, input, report, key, outcomes, last_write, run_start,
                    prev_run, store_writes, faults >>

\* A program that holds one engine and calls apply_locale_settings on it.
ApiApply(locale) ==
    /\ entry = "api" /\ pc = "start"
    /\ calls < MaxCalls
    /\ calls' = calls + 1
    /\ pc' = "call_apply"
    /\ arg_locale' = locale
    /\ UNCHANGED << platform, stdout, engine, LOCALE_SETTINGS_CACHE,
                    registry, backup_files, current_locale, entry, locale_settings,
                    idx, attempt, success, ret, backup_ret, exit_code, input, report,
                    key, outcomes, last_write, run_start, prev_run, backup_attempts,
                    dirs_created, store_writes, faults >>

NumberOf(result) == Cardinality({k \in 1..Len(outcomes) : outcomes[k].result = result})

\* The caller has the result of apply_locale_settings.
ApiReturn ==
    /\ entry = "api" /\ pc = "returned"
    /\ pc' = "start"
    /\ prev_run' = IF ret = "KeyError" THEN prev_run
                   ELSE [made |-> TRUE, locale |-> arg_locale, ret |-> ret,
                         applied |-> NumberOf("Applied"), failed |-> NumberOf("Failed"),
                         operation_count |-> operation_count,
                         success_count |-> success_count, error_count |-> error_count]
    /\ UNCHANGED << platform, stdout, engine, LOCALE_SETTINGS_CACHE,
                    registry, backup_files, current_locale, entry, arg_locale,
                    locale_settings, idx, attempt, success, ret, backup_ret,
                    exit_code, input, report, key, outcomes, last_write, run_start,
                    backup_attempts, dirs_created, store_writes, faults, calls >>

\* ------------------------------------------------- apply_locale_settings
\* Entry of apply_locale_settings: the table comes from _get_locale_settings,
\* whose KeyError (an identifier outside SUPPORTED_LOCALES) leaves the method.
ApplyBegin ==
    /\ pc = "call_apply"
    /\ LET r == get_locale_settings(arg_locale, LOCALE_SETTINGS_CACHE)
       IN  IF r.raised
           THEN /\ ret' = "KeyError"
                /\ pc' = "returned"
                /\ UNCHANGED << LOCALE_SETTINGS_CACHE, locale_settings, idx, attempt,
                                success, key, outcomes, run_start, stdout >>
           ELSE /\ LOCALE_SETTINGS_CACHE' = r.cache
                /\ locale_settings' = r.settings
                /\ idx' = 1
                /\ attempt' = 0
                /\ success' = TRUE
                /\ ret' = "none"
                /\ key' = NoKey
                /\ outcomes' = << >>
                /\ run_start' = Counters
                /\ stdout' = IF WINDOWS_AVAILABLE THEN stdout
                             ELSE stdout \cup {"[DEMO MODE]"}
                /\ pc' = "apply_loop"
    /\ UNCHANGED << platform, engine, registry, backup_files,
                    current_locale, entry, arg_locale, backup_ret, exit_code, input,
                    report, last_write, prev_run, backup_attempts, dirs_created,
                    store_writes, faults, calls >>

Outcome(name, result, k) ==
    [name |-> name, result |-> result, attempts |-> k.attempts,
     only_mismatches |-> k.only_mismatches, errors |-> k.errors]

\* One iteration of the retry loop of set_registry_value for the current
\* setting, on the Live store, with the store's response to it.
RegistryAttempt(resp) ==
    /\ pc = "apply_loop" /\ WINDOWS_AVAILABLE
    /\ idx <= Len(locale_settings)
    /\ InRange(attempt, user_config.maxRetries)
    /\ resp # "ok" => (faults < MaxFaults /\ locale_settings[idx].name \in FaultableNames)
    /\ LET name == locale_settings[idx].name
           value_data == locale_settings[idx].value
           reg == SetValueEx(registry, name, value_type_of(value_data), value_data, resp)
           raised == resp \in {"set_raises", "read_raises"}
           stored_value == reg[name].data
           ok == Verified(raised, stored_value, value_data)
           last == ~(attempt < user_config.maxRetries - 1)
           k == [attempts |-> key.attempts + 1,
                 only_mismatches |-> key.only_mismatches /\ ~ok /\ ~raised,
                 errors |-> key.errors + (IF raised /\ last THEN 1 ELSE 0)]
       IN  /\ operation_count' = operation_count + 1
           /\ store_writes' = store_writes + 1
           /\ registry' = reg
           /\ faults' = faults + (IF resp = "ok" THEN 0 ELSE 1)
           /\ last_write' = [name |-> name, written |-> value_data,
                             read_back |-> stored_value, raised |-> raised,
                             reported |-> ok, made |-> TRUE]
           /\ success_count' = IF ok THEN success_count + 1 ELSE success_count
           /\ error_count' = IF raised /\ last THEN error_count + 1 ELSE error_count
           /\ IF ReturnsTrue(ok)
              THEN /\ outcomes' = Append(outcomes, Outcome(name, "Applied", k))
                   /\ key' = NoKey
                   /\ idx' = next_item(idx)
                   /\ attempt' = 0
                   /\ success' = FoldSuccess(success, TRUE)
              ELSE /\ key' = k
                   /\ attempt' = attempt + 1
                   /\ UNCHANGED << outcomes, idx, success >>
    /\ UNCHANGED << platform, stdout, user_config, backup_path,
                    LOCALE_SETTINGS_CACHE, backup_files, current_locale, entry, pc,
                    arg_locale, locale_settings, ret, backup_ret, exit_code, input,
                    report, run_start, prev_run, backup_attempts, dirs_created, calls >>

\* The retry loop of set_registry_value ran out (or never ran): return False.
RetriesExhausted ==
    /\ pc = "apply_loop" /\ WINDOWS_AVAILABLE
    /\ idx <= Len(locale_settings)
    /\ ~InRange(attempt, user_config.maxRetries)
    /\ outcomes' = Append(outcomes, Outcome(locale_settings[idx].name, "Failed", key))
    /\ key' = NoKey
    /\ success' = FoldSuccess(success, FALSE)
    /\ idx' = next_item(idx)
    /\ attempt' = 0
    /\ UNCHANGED << platform, stdout, engine, LOCALE_SETTINGS_CACHE,
                    registry, backup_files, current_locale, entry, pc, arg_locale,
                    locale_settings, ret, backup_ret, exit_code, input, report,
                    last_write, run_start, prev_run, backup_attempts, dirs_created,
                    store_writes, faults, calls >>

\* Demo mode (no winreg): one iteration of the loop that only logs and counts.
DemoSetting ==
    /\ pc = "apply_loop" /\ ~WINDOWS_AVAILABLE
    /\ idx <= Len(locale_settings)
    /\ operation_count' = operation_count + 1
    /\ success_count' = success_count + 1
    /\ outcomes' = Append(outcomes, Outcome(locale_settings[idx].name, "Applied", NoKey))
    /\ idx' = next_item(idx)
    /\ UNCHANGED << platform, stdout, user_config, error_count, backup_path,
                    LOCALE_SETTINGS_CACHE, registry, backup_files, current_locale,
                    entry, pc, arg_locale, locale_settings, attempt, success, ret,
                    backup_ret, exit_code, input, report, key, last_write, run_start,
                    prev_run, backup_attempts, dirs_created, store_writes, faults,
                    calls >>

\* return success
ApplyReturn ==
    /\ pc = "apply_loop"
    /\ idx > Len(locale_settings)
    /\ ret' = IF success THEN "True" ELSE "False"
    /\ pc' = "returned"
    /\ UNCHANGED << platform, stdout, engine, LOCALE_SETTINGS_CACHE,
                    registry, backup_files, current_locale, entry, arg_locale,
                    locale_settings, idx, attempt, success, backup_ret, exit_code,
                    input, report, history >>

\* ----------------------------------------------------------- specification
Next ==
    \/ \E locale \in LocaleInputs, force \in BOOLEAN, answer \in {"y", "n"},
          extra \in ExtraArguments :
          CliMain(locale, force, answer, extra)
    \/ CliFinish
    \/ \E choice \in 1..Len(SupportedOrder) :
          SupportedOrder[choice] \in LocaleInputs /\ ConfigureSettings(choice)
    \/ \E answer \in {"y", "n"} : QuickReset(answer)
    \/ \E resp \in BackupResponses : QuickBackup(resp)
    \/ QuickFinish
    \/ \E label \in BackupLabels, resp \in BackupResponses : ApiCreateBackup(label, resp)
    \/ \E locale \in LocaleInputs : ApiApply(locale)
    \/ ApiReturn
    \/ ApplyBegin
    \/ \E resp \in StoreResponses : RegistryAttempt(resp)
    \/ RetriesExhausted
    \/ DemoSetting
    \/ ApplyReturn

Spec == Init /\ [][Next]_vars

\* apply_locale_settings runs synchronously: once called it keeps executing
\* until it returns or raises.
ApplyStep ==
    \/ ApplyBegin
    \/ \E resp \in StoreResponses : RegistryAttempt(resp)
    \/ RetriesExhausted
    \/ DemoSetting
    \/ ApplyReturn

\* ------------------------------------------------------------------ claims
Completed == pc = "returned" /\ ret \in {"True", "False"}
Attempted == operation_count - run_start.operation_count
OutcomeOf(name) == CHOOSE o \in {outcomes[k] : k \in 1..Len(outcomes)} : o.name = name
HasOutcome(name) == \E k \in 1..Len(outcomes) : outcomes[k].name = name

\* C1: apply_locale_settings called with an identifier outside the supported
\* set ends at once without success (the KeyError of _get_locale_settings) and
\* changes nothing: no store write, no backup attempt, no counter, no cache entry.
C1_UnsupportedLocaleNoEffect ==
    [][ (pc = "call_apply" /\ ~validate_locale(arg_locale))
        => /\ pc' = "returned"
           /\ ret' = "KeyError"
           /\ UNCHANGED << registry, operation_count, success_count, error_count,
                           LOCALE_SETTINGS_CACHE, backup_path, backup_files,
                           backup_attempts, store_writes, outcomes >> ]_vars

C1_Witness ==
    /\ pc = "returned" /\ ret = "KeyError" /\ arg_locale = "xx-XX"
    /\ operation_count = 0 /\ store_writes = 0

\* C2: on the Live store, a key whose every write attempt ended in a read-back
\* mismatch was attempted exactly maxRetries times and has exactly one
\* outcome, Failed; no key is ever attempted more than maxRetries times.
C2_RetryBound ==
    /\ Len(outcomes) <= Len(locale_settings)
    /\ key.attempts <= user_config.maxRetries
    /\ \A k \in 1..Len(outcomes) :
          /\ outcomes[k].name = locale_settings[k].name
          /\ outcomes[k].attempts <= user_config.maxRetries
          /\ (WINDOWS_AVAILABLE /\ outcomes[k].only_mismatches)
                => /\ outcomes[k].attempts = user_config.maxRetries
                   /\ outcomes[k].result = "Failed"

C2_Witness ==
    /\ WINDOWS_AVAILABLE
    /\ \E k \in 1..Len(outcomes) :
          /\ outcomes[k].only_mismatches
          /\ outcomes[k].attempts >= 2
          /\ outcomes[k].result = "Failed"

\* C3: with at least one attempt allowed per key, at every key boundary of a
\* run and at its end the attempted counter has grown by exactly one per key
\* processed, whatever the retries.
C3_AttemptedOncePerKey ==
    user_config.maxRetries >= 1 =>
        /\ (pc = "apply_loop" /\ attempt = 0) => Attempted = idx - 1
        /\ Completed => Attempted = Len(locale_settings)

\* C4: apply_locale_settings returns True exactly when no key of the table
\* ended Failed, every key having exactly one outcome.
C4_SuccessIffNoFailed ==
    Completed =>
        /\ Len(outcomes) = Len(locale_settings)
        /\ (ret = "True") <=> (\A k \in 1..Len(outcomes) : outcomes[k].result # "Failed")

C4_Witness ==
    /\ Completed /\ WINDOWS_AVAILABLE /\ ret = "False"
    /\ \E k \in 1..Len(outcomes) : outcomes[k].result = "Failed" /\ outcomes[k].attempts > 0
    /\ outcomes[Len(outcomes)].result = "Applied"

\* C5: when the store fails every write of sCurrency and accepts all others,
\* the run returns failure, every other key is Applied, and the attempted
\* counter equals the number of keys of the table.
C5_PartialFailure ==
    ( /\ Completed /\ WINDOWS_AVAILABLE
      /\ user_config.maxRetries >= 1
      /\ HasOutcome("sCurrency")
      /\ OutcomeOf("sCurrency").result = "Failed" )
    => /\ ret = "False"
       /\ \A k \in 1..Len(outcomes) :
             outcomes[k].name # "sCurrency" => outcomes[k].result = "Applied"
       /\ Attempted = Len(locale_settings)

\* C6: after a quick reset whose backup failed, every setting was processed
\* and the report shows no backup directory (backup_path is empty).
C6_FailedBackupReportedAbsent ==
    ( /\ entry = "menu" /\ pc = "menu" /\ report.made
      /\ backup_ret = "False" )
    => /\ Len(outcomes) = Len(locale_settings)
       /\ report.backup_directory = "None created"
       /\ backup_path = ""

\* C7: on the command-line and quick-reset paths no store write happens
\* before a backup of the subtree was attempted in that run.
C7_BackupBeforeWrite ==
    (entry \in {"cli", "menu"} /\ store_writes > 0) => backup_attempts > 0

\* C8: a second apply_locale_settings("en-US") on the same engine in demo
\* mode ends with the same outcomes and the same counters as the first.
C8_SecondRunIdentical ==
    ( /\ entry = "api" /\ ~WINDOWS_AVAILABLE /\ Completed
      /\ arg_locale = "en-US"
      /\ prev_run.made /\ prev_run.locale = "en-US" )
    => /\ prev_run.ret = ret
       /\ prev_run.applied = NumberOf("Applied")
       /\ prev_run.failed = NumberOf("Failed")
       /\ prev_run.operation_count = operation_count
       /\ prev_run.success_count = success_count
       /\ prev_run.error_count = error_count

\* C9: a write attempt on the Live store reports success only if nothing
\* raised and the value read back from the key equals the value written.
C9_SuccessOnlyWhenVerified ==
    (last_write.made /\ last_write.reported)
    => /\ ~last_write.raised
       /\ last_write.read_back = last_write.written
       /\ registry[last_write.name].present
       /\ registry[last_write.name].data = last_write.written

C9_Witness ==
    /\ last_write.made /\ last_write.reported /\ last_write.name = "sCurrency"
    /\ key = NoKey /\ faults > 0

\* C10: a key whose every write attempt ended in a read-back mismatch is
\* Failed, and the failed counter grew by one (one error logged) for it.
C10_MismatchCountedFailed ==
    \A k \in 1..Len(outcomes) :
        (WINDOWS_AVAILABLE /\ outcomes[k].only_mismatches /\ outcomes[k].attempts >= 1)
        => /\ outcomes[k].result = "Failed"
           /\ outcomes[k].errors = 1

RECURSIVE SumAttempts(_)
SumAttempts(os) == IF os = << >> THEN 0 ELSE Head(os).attempts + SumAttempts(Tail(os))
\* Write attempts made so far by the run in progress (or just completed).
RunWrites == SumAttempts(outcomes) + key.attempts

\* What is left of the two nested loops of apply_locale_settings: the keys
\* not yet finished, each with its full loop, less the iterations the
\* current key has used.
LoopsLeft ==
    (Len(locale_settings) - idx + 1) * (user_config.maxRetries + 1) - attempt

\* C11: for a supported locale and whatever the store answers, a call of
\* apply_locale_settings returns True or False and no exception leaves it:
\* it enters its loop, every step of the loop is possible and uses up part of
\* a bounded remainder, and the loop is left only by the return; the run
\* never makes more than Len(locale_settings) * maxRetries write attempts.
C11_AlwaysReturns ==
    /\ []( /\ (pc = "returned" /\ validate_locale(arg_locale)) => ret \in {"True", "False"}
           /\ (pc \in {"apply_loop", "returned"} /\ ret # "KeyError")
                 => RunWrites <= Len(locale_settings) * user_config.maxRetries
           /\ pc = "call_apply" => ENABLED ApplyBegin
           /\ pc = "apply_loop" => (LoopsLeft >= 0 /\ ENABLED ApplyStep) )
    /\ [][ (pc = "call_apply" /\ validate_locale(arg_locale)) => pc' = "apply_loop" ]_vars
    /\ [][ pc = "apply_loop"
             => \/ pc' = "apply_loop" /\ LoopsLeft' < LoopsLeft
                \/ pc' = "returned" /\ ret' \in {"True", "False"} ]_vars

C11_Witness ==
    /\ Completed /\ WINDOWS_AVAILABLE /\ ret = "False"
    /\ HasOutcome("sCurrency") /\ OutcomeOf("sCurrency").errors = 1
    /\ RunWrites > Len(locale_settings)

\* C12: without the Live store nothing real is touched and everything
\* reports success: no registry write is made, no key is ever Failed and no
\* error is counted, a completed run returns True with every key Applied,
\* and a backup request returns False without naming or creating a directory.
C12_SimulatedTouchesNothing ==
    ~WINDOWS_AVAILABLE =>
        /\ store_writes = 0
        /\ registry = [nm \in RegistryNames |-> NoValue]
        /\ error_count = 0
        /\ \A k \in 1..Len(outcomes) : outcomes[k].result = "Applied"
        /\ Completed => (ret = "True" /\ Len(outcomes) = Len(locale_settings))
        /\ backup_attempts > 0 => backup_ret = "False"
        /\ backup_path = "" /\ dirs_created = 0 /\ backup_files = {}

C12_Witness ==
    /\ ~WINDOWS_AVAILABLE /\ Completed /\ ret = "True"
    /\ arg_locale = "de-DE" /\ Len(outcomes) = 4
    /\ backup_attempts > 0 /\ backup_ret = "False"

\* The first run of a new engine, without the Live store, for pl-PL.
FreshSimulatedPolishRun ==
    /\ ~WINDOWS_AVAILABLE /\ arg_locale = "pl-PL"
    /\ pc \in {"returned", "exit"} /\ ret \in {"True", "False"}
    /\ run_start = [operation_count |-> 0, success_count |-> 0, error_count |-> 0]

\* C13 (as stated): that run applies a profile of 19 keys and ends with
\* attempted = 19, succeeded = 19, failed = 0 and a success rate of 100.0%.
C13_NineteenKeys ==
    FreshSimulatedPolishRun =>
        /\ Len(locale_settings) = 19
        /\ operation_count = 19 /\ success_count = 19 /\ error_count = 0
        /\ generate_statistics_report.success_rate = 1000

\* C13 (amended): that run applies the 22 keys of the pl-PL table and ends
\* with attempted = 22, succeeded = 22, failed = 0 and a success rate of
\* 100.0%, and main reports exactly these figures.
C13_TwentyTwoKeys ==
    /\ FreshSimulatedPolishRun =>
          /\ Len(locale_settings) = 22
          /\ NumberOf("Applied") = 22
          /\ operation_count = 22 /\ success_count = 22 /\ error_count = 0
          /\ generate_statistics_report.success_rate = 1000
    /\ (FreshSimulatedPolishRun /\ entry = "cli" /\ report.made) =>
          /\ report.total = 22 /\ report.successful = 22 /\ report.failed = 0
          /\ report.success_rate = 1000
          /\ exit_code = 0

C13_Witness ==
    /\ FreshSimulatedPolishRun /\ entry = "cli" /\ pc = "exit"
    /\ report.made /\ report.total = 22

\* Where a settings table holds a name.
IndexOf(settings, name) ==
    CHOOSE k \in 1..Len(settings) : settings[k].name = name

\* The cache can have changed: no call was made yet, or a call has just
\* resolved its table.
CacheJustSet ==
    \/ calls = 0
    \/ pc = "apply_loop" /\ idx = 1 /\ attempt = 0

\* C14: against every content the cache takes (it only changes when a call
\* resolves its table), _get_locale_settings(id) returns for each of the
\* twelve supported ids a table whose Locale and LocaleName are both id, and
\* the table under way in apply_locale_settings is that of the requested id.
C14_ProfileNamesItsLocale ==
    /\ CacheJustSet =>
          \A id \in DOMAIN SUPPORTED_LOCALES :
              LET r == get_locale_settings(id, LOCALE_SETTINGS_CACHE)
              IN  /\ ~r.raised
                  /\ \E k \in 1..Len(r.settings) : r.settings[k].name = "Locale"
                  /\ \E k \in 1..Len(r.settings) : r.settings[k].name = "LocaleName"
                  /\ r.settings[IndexOf(r.settings, "Locale")].value = PyStr(id)
                  /\ r.settings[IndexOf(r.settings, "LocaleName")].value = PyStr(id)
    /\ pc = "apply_loop" =>
          /\ locale_settings[IndexOf(locale_settings, "Locale")].value = PyStr(arg_locale)
          /\ locale_settings[IndexOf(locale_settings, "LocaleName")].value = PyStr(arg_locale)

C14_Witness ==
    /\ DOMAIN LOCALE_SETTINGS_CACHE = {"de-DE", "en-US"}
    /\ CacheJustSet /\ pc = "apply_loop" /\ arg_locale = "de-DE" /\ calls = 2
    /\ locale_settings = LOCALE_SETTINGS_CACHE["de-DE"]

\* C15: an engine creates at most one snapshot directory: a file is only ever
\* exported into that one directory, and a later create_backup on the same
\* engine keeps backup_path, creates no directory and at most adds the file
\* of its label.
C15_OneSnapshotDirectory ==
    /\ []( /\ dirs_created <= 1
           /\ dirs_created = 1 => backup_path = BackupDir
           /\ backup_files # {} => dirs_created = 1 )
    /\ [][ (backup_attempts' > backup_attempts /\ backup_path # "")
             => /\ backup_path' = backup_path
                /\ dirs_created' = dirs_created
                /\ backup_files \subseteq backup_files'
                /\ Cardinality(backup_files' \ backup_files) <= 1 ]_vars

C15_Witness ==
    /\ entry = "api" /\ backup_attempts = 2 /\ dirs_created = 1
    /\ backup_files = {"pre-change", "Manual_Backup"}

\* main was given --locale (and possibly --force) and nothing it rejects,
\* and has ended.
CliEnded == entry = "cli" /\ pc = "exit" /\ parse_args({"--locale"} \cup input.extra)
AllApplied ==
    /\ ret = "True" /\ Len(outcomes) = Len(locale_settings) /\ Len(outcomes) > 0
    /\ \A k \in 1..Len(outcomes) : outcomes[k].result = "Applied"

C17_MalformedConfigGivesDefaults ==
    (config_file.exists /\ ~config_file.parses) =>
        /\ load_warned
        /\ user_config = DEFAULT_CONFIG
        /\ user_config.maxRetries = 3
        /\ \A k \in 1..Len(outcomes) :
              (WINDOWS_AVAILABLE /\ outcomes[k].result = "Failed") => outcomes[k].attempts = 3

C17_Witness ==
    /\ config_file.exists /\ ~config_file.parses
    /\ config_file.options["maxRetries"] = 0
    /\ WINDOWS_AVAILABLE /\ Completed
    /\ NumberOf("Failed") = 1 /\ RunWrites = Len(locale_settings) + 2

\* C18: lack of administrator rights does not stop a reset on the Live
\* store: a command-line run that was confirmed, and a quick reset the user
\* asked for and would confirm, have processed every setting of the locale
\* and produced the report by the time control is back.
C18_RunsWithoutAdmin ==
    (WINDOWS_AVAILABLE /\ ~is_admin) =>
        /\ ( /\ CliEnded /\ validate_locale(input.locale)
             /\ (input.force \/ input.answer = "y") )
           => (report.made /\ Len(outcomes) = Len(locale_settings) /\ Len(outcomes) > 0)
        /\ (entry = "menu" /\ pc = "menu" /\ calls > 0 /\ input.answer = "y")
           => (report.made /\ Len(outcomes) = Len(locale_settings) /\ Len(outcomes) > 0)

\* C19: without the Live store, main given `--locale en-US --demo` ends with
\* exit code 0 having written the DEMO MODE marker to standard output.
C19_DemoFlagExitsZero ==
    ( /\ entry = "cli" /\ pc = "exit" /\ ~WINDOWS_AVAILABLE
      /\ input.locale = "en-US" /\ input.extra = {"--demo"} )
    => /\ exit_code = 0
       /\ "[DEMO MODE]" \in stdout

\* C20: a write attempt is only made for a key that has used fewer than
\* maxRetries attempts and has no outcome yet, and never for the key whose
\* previous attempt in this run was reported as success.
C20_StopsAtFirstVerifiedWrite ==
    [][ (pc = "apply_loop" /\ store_writes' = store_writes + 1)
          => /\ key.attempts < user_config.maxRetries
             /\ ~HasOutcome(last_write'.name)
             /\ ((idx > 1 \/ attempt > 0) /\ last_write.reported)
                   => last_write'.name # last_write.name ]_vars

C20_Witness ==
    /\ pc = "apply_loop" /\ WINDOWS_AVAILABLE
    /\ HasOutcome("sCurrency") /\ OutcomeOf("sCurrency").result = "Applied"
    /\ OutcomeOf("sCurrency").attempts = 2
    /\ last_write.name = "sMonDecimalSep" /\ last_write.reported

\* C21: one call works through the table in its order, one key at a time:
\* the keys finished so far are exactly the first idx - 1 of the table, each
\* once; a write attempt is always for the key at idx; and idx only ever
\* moves to the next key, together with the outcome of the key it leaves.
C21_KeysInOrder ==
    /\ []( /\ pc = "apply_loop" =>
                /\ Len(outcomes) = idx - 1
                /\ idx <= Len(locale_settings) + 1
                /\ \A k \in 1..Len(outcomes) : outcomes[k].name = locale_settings[k].name
                /\ \A j, k \in 1..Len(locale_settings) :
                      j # k => locale_settings[j].name # locale_settings[k].name
           /\ Completed => Len(outcomes) = Len(locale_settings) )
    /\ [][ (pc = "apply_loop" /\ store_writes' = store_writes + 1)
             => last_write'.name = locale_settings[idx].name ]_vars
    /\ [][ (pc = "apply_loop" /\ pc' = "apply_loop")
             => \/ idx' = idx /\ outcomes' = outcomes
                \/ idx' = idx + 1 /\ Len(outcomes') = Len(outcomes) + 1 ]_vars

C21_Witness ==
    /\ Completed /\ WINDOWS_AVAILABLE /\ arg_locale = "pl-PL"
    /\ outcomes[9].name = "sCurrency" /\ outcomes[9].attempts = 3
    /\ last_write.name = "s2359" /\ RunWrites = 24

\* What the claim expects of the fallback table: the language code of each
\* identifier in upper case, and the country its display name gives in
\* parentheses.
ExpectedLanguage ==
       "en-GB" :> "EN" @@ "de-DE" :> "DE" @@ "fr-FR" :> "FR" @@ "es-ES" :> "ES"
    @@ "it-IT" :> "IT" @@ "pt-PT" :> "PT" @@ "ru-RU" :> "RU" @@ "zh-CN" :> "ZH"
    @@ "ja-JP" :> "JA" @@ "ko-KR" :> "KO"
ExpectedCountry ==
       "en-GB" :> "United Kingdom" @@ "de-DE" :> "Germany" @@ "fr-FR" :> "France"
    @@ "es-ES" :> "Spain" @@ "it-IT" :> "Italy" @@ "pt-PT" :> "Portugal"
    @@ "ru-RU" :> "Russia" @@ "zh-CN" :> "China" @@ "ja-JP" :> "Japan"
    @@ "ko-KR" :> "Korea"

\* C22: when a call has resolved the table of a supported id that has no
\* explicit table, that table, and the one _get_locale_settings returns for
\* every other such id, is without error exactly Locale = id, LocaleName =
\* id, sLanguage = the upper-case language code and sCountry = the country
\* name of the id's display name.
C22_FallbackProfile ==
    (pc = "apply_loop" /\ idx = 1 /\ attempt = 0 /\ arg_locale \notin {"pl-PL", "en-US"}) =>
        \A id \in DOMAIN SUPPORTED_LOCALES \ {"pl-PL", "en-US"} :
            LET r == get_locale_settings(id, LOCALE_SETTINGS_CACHE)
                expected == << Setting("Locale", PyStr(id)),
                               Setting("LocaleName", PyStr(id)),
                               Setting("sLanguage", PyStr(ExpectedLanguage[id])),
                               Setting("sCountry", PyStr(ExpectedCountry[id])) >>
            IN  /\ ~r.raised
                /\ r.settings = expected
                /\ id = arg_locale => locale_settings = expected

\* C23: the cache only holds supported ids, and against every content it
\* takes _get_locale_settings gives, for each supported id and for an
\* unsupported one, the result it gives with an empty cache; the table a call
\* works on is the one an empty cache would have given it.
C23_CacheIsTransparent ==
    /\ DOMAIN LOCALE_SETTINGS_CACHE \subseteq DOMAIN SUPPORTED_LOCALES
    /\ CacheJustSet =>
          \A id \in DOMAIN SUPPORTED_LOCALES \cup {"xx-XX"} :
              LET warm == get_locale_settings(id, LOCALE_SETTINGS_CACHE)
                  cold == get_locale_settings(id, << >>)
              IN  warm.raised = cold.raised /\ warm.settings = cold.settings
    /\ (CacheJustSet /\ pc = "apply_loop") =>
          locale_settings = get_locale_settings(arg_locale, << >>).settings

C23_Witness ==
    /\ pc = "apply_loop" /\ idx = 1 /\ attempt = 0
    /\ prev_run.made /\ prev_run.locale = "pl-PL" /\ arg_locale = "pl-PL"
    /\ DOMAIN LOCALE_SETTINGS_CACHE = {"pl-PL"}
    /\ Len(locale_settings) = 22

\* C24: the engine's success_count never exceeds its operation_count, and
\* no report shows a success rate above 100.0%.
C24_SucceededAtMostAttempted ==
    /\ success_count <= operation_count
    /\ report.made => report.success_rate <= 1000

\* C25: when apply_locale_settings has returned in a quick reset (a new
\* engine, one backup attempt, then the run), it returned True exactly if
\* error_count is 0, and error_count is the number of keys that ended Failed.
C25_FlagAgreesWithFailedCounter ==
    (entry = "menu" /\ Completed) =>
        /\ (ret = "True") <=> (error_count = 0)
        /\ error_count = NumberOf("Failed")

\* C26: when apply_locale_settings returns True on the Live store, every
\* key of the table it applied holds the table's value, with the table's
\* kind, in Control Panel\International.
C26_SuccessMeansStored ==
    (WINDOWS_AVAILABLE /\ Completed /\ ret = "True") =>
        \A k \in 1..Len(locale_settings) :
            LET s == locale_settings[k]
            IN  /\ registry[s.name].present
                /\ registry[s.name].data = s.value
                /\ registry[s.name].type = value_type_of(s.value)

C26_Witness ==
    /\ WINDOWS_AVAILABLE /\ Completed /\ ret = "True" /\ arg_locale = "en-US"
    /\ faults >= 2 /\ registry["sCurrency"].data = PyStr("$")
    /\ registry["s2359"].data = PyStr("PM")

\* C27: a quick reset is past its prompt (backup, run) only if the admin
\* check passed and the answer was y; main is in the run only if the locale
\* validated and --force was given or the answer was y; and a request that
\* is answered otherwise ends there with the store, the backups and the
\* counters unchanged.
C27_NothingWithoutConsent ==
    /\ []( /\ (entry = "menu" /\ pc \in {"call_backup", "call_apply", "apply_loop", "returned"})
                => (WINDOWS_AVAILABLE /\ is_admin /\ input.answer = "y")
           /\ (entry = "cli" /\ pc \in {"call_apply", "apply_loop", "returned"})
                => /\ validate_locale(input.locale)
                   /\ (input.force \/ input.answer = "y") )
    /\ [][ ( /\ entry \in {"cli", "menu"} /\ calls' = calls + 1
             /\ ~input'.force /\ input'.answer # "y" )
           => /\ pc' \in {"exit", "menu"}
              /\ UNCHANGED << registry, operation_count, success_count, error_count,
                              backup_path, backup_files, backup_attempts,
                              store_writes, LOCALE_SETTINGS_CACHE >> ]_vars

C27_Witness ==
    /\ entry = "menu" /\ pc = "menu" /\ calls = 2
    /\ input.answer = "n" /\ report.made /\ store_writes = 22

====
